---- MODULE Spec2Model ----
(***************************************************************************)
(* Focus tracker (src/app.py): the three-state calibration / session       *)
(* machine of MainWindow, its tracking worker threads and the queued       *)
(* signals between them.                                                   *)
(*                                                                         *)
(* The UI thread runs press_button, closeEvent and the slot of the queued   *)
(* update_state_signal (set_state).  set_state is split at                 *)
(* the write of self.state (line 735): the branch that follows is a step   *)
(* of its own, so a worker can observe the value written before the        *)
(* branch has run.  A worker (tracking_loop) alternates between the test   *)
(* of its while loop and one pass through the body, then runs the code     *)
(* after the loop.                                                         *)
(***************************************************************************)
EXTENDS Integers, Sequences, FiniteSets, TLC

(* ---------------------------------------------------------------- bounds *)
MaxWorkers == 2
StudySecs == 1
(* StoreSpec: time() in ticks of 1 / TicksPerSecond s, up to MaxTicks;      *)
(* timelines of up to MaxSamples samples; MaxCalls calls                    *)
TicksPerSecond == 2
MaxTicks == 3
MaxSamples == 2
MaxCalls == 2

(* ----------------------------------------------------- program constants *)
SAMPLE_INTERVAL_SECONDS == 1
ALERT_THRESHOLD_SECONDS == 5
SENTINEL == 1000000
TOLERANCE == 5
IDLE == 0
CALIBRATING == 1
SESSION == 2

(* None, for a time, a thread and a coordinate pair *)
NoTime == 0 - 1
NoThread == 0
NoCoords == << >>
(* None as a component of a coordinate pair *)
NoValue == 0 - 1

Workers == 1..MaxWorkers
(* the readings of time(): the instants that straddle the sampling         *)
(* interval, the study duration and the alert threshold                     *)
Instants == { 0, SAMPLE_INTERVAL_SECONDS, StudySecs, ALERT_THRESHOLD_SECONDS }
(* the pupil pairs (left, right) a located frame may hold *)
PupilPairs ==
    { << <<10, 10>>, <<10, 10>> >>, << <<30, 30>>, <<30, 30>> >>,
      << <<0, 0>>, <<0, 0>> >>, << <<10, 10>>, <<0, 0>> >> }

VARIABLES
    state,                        \* self.state
    webcam,                       \* self.webcam: "None", "opened", "unopened"
    tracking_thread,              \* self.tracking_thread
    eyeLeft_boundary,             \* self.eyeLeft_boundary
    eyeRight_boundary,            \* self.eyeRight_boundary
    study_time,                   \* QTime(0,0,0).secsTo(self.study_time)
    consecutive_unfocused_start,  \* self.consecutive_unfocused_start
    alert_sounded,                \* self.alert_sounded
    ui_stack,                     \* new_state of each active set_state call
    ui_event,                     \* the event the UI thread is handling
    ui_status,                    \* status emitted by set_state in this event
    closed,                       \* closeEvent has run
    queue,                        \* queued update_state_signal(0), in order
    pc,                           \* each worker's position
    session_running,              \* tracking_loop local, per worker
    session_start_time,           \* tracking_loop local, per worker
    last_sample_time,             \* tracking_loop local, per worker
    timeline,                     \* tracking_loop local, per worker
    finishes,                     \* finish_session calls made by each worker
    now,                          \* time()
    obs,                          \* what the loop body just run read and emitted
                                  \* (kept by FrameSpec only)
    streak,                       \* the unfocused streak of the Session frames
    db,                           \* the rows of the sessions table
    shown,                        \* show_stats_signal emissions, in order
    call                          \* the call just made on a component driven
                                  \* by its interface (BoundarySpec, StoreSpec)

vars == << state, webcam, tracking_thread, eyeLeft_boundary, eyeRight_boundary,
           study_time, consecutive_unfocused_start, alert_sounded, ui_stack,
           ui_event, ui_status, closed, queue, pc, session_running,
           session_start_time, last_sample_time, timeline, finishes, now, obs,
           streak, db, shown, call >>

uiVars == << ui_stack, ui_event, ui_status, closed >>
workerVars == << pc, session_running, session_start_time, last_sample_time,
                 timeline, finishes >>
sharedVars == << consecutive_unfocused_start, alert_sounded >>
boundaryVars == << eyeLeft_boundary, eyeRight_boundary >>
(* what only the specifications of one component change *)
unitVars == << db, shown, call >>

(* ------------------------------------------------------------ EyeBoundary *)
(* a constructor that starts the minima at zero *)
FreshBoundary_ZeroMin ==
    [min_x |-> 0, max_x |-> 0, min_y |-> 0, max_y |-> 0,
     calibrated |-> FALSE]

FreshBoundary ==
    [min_x |-> SENTINEL, max_x |-> 0, min_y |-> SENTINEL, max_y |-> 0,
     calibrated |-> FALSE]

Min2(a, b) == IF a < b THEN a ELSE b
Max2(a, b) == IF a > b THEN a ELSE b

(* an adjust_coords that calls a box of no width or no height calibrated *)
adjust_coords_Degenerate(b, coords) ==
    IF coords = NoCoords THEN b
    ELSE LET x == coords[1]
             y == coords[2]
         IN  IF x = NoValue \/ y = NoValue \/ (x = 0 /\ y = 0) THEN b
             ELSE LET nb == [b EXCEPT !.min_x = Min2(b.min_x, x),
                                      !.max_x = Max2(b.max_x, x),
                                      !.min_y = Min2(b.min_y, y),
                                      !.max_y = Max2(b.max_y, y)]
                  IN  IF nb.max_x >= nb.min_x /\ nb.max_y >= nb.min_y
                      THEN [nb EXCEPT !.calibrated = TRUE]
                      ELSE nb

(* an adjust_coords that ignores every pair with a zero component *)
adjust_coords_AnyZero(b, coords) ==
    IF coords = NoCoords THEN b
    ELSE LET x == coords[1]
             y == coords[2]
         IN  IF x = NoValue \/ y = NoValue \/ x = 0 \/ y = 0 THEN b
             ELSE LET nb == [b EXCEPT !.min_x = Min2(b.min_x, x),
                                      !.max_x = Max2(b.max_x, x),
                                      !.min_y = Min2(b.min_y, y),
                                      !.max_y = Max2(b.max_y, y)]
                  IN  IF nb.max_x > nb.min_x /\ nb.max_y > nb.min_y
                      THEN [nb EXCEPT !.calibrated = TRUE]
                      ELSE nb

adjust_coords(b, coords) ==
    IF coords = NoCoords THEN b
    ELSE LET x == coords[1]
             y == coords[2]
         IN  IF x = NoValue \/ y = NoValue \/ (x = 0 /\ y = 0) THEN b
             ELSE LET nb == [b EXCEPT !.min_x = Min2(b.min_x, x),
                                      !.max_x = Max2(b.max_x, x),
                                      !.min_y = Min2(b.min_y, y),
                                      !.max_y = Max2(b.max_y, y)]
                  IN  IF nb.max_x > nb.min_x /\ nb.max_y > nb.min_y
                      THEN [nb EXCEPT !.calibrated = TRUE]
                      ELSE nb

(* a check_coords that compares against the box whether calibrated or not *)
check_coords_Uncalibrated(b, coords) ==
    IF coords = NoCoords THEN TRUE
    ELSE LET x == coords[1]
             y == coords[2]
         IN  \/ x = NoValue \/ y = NoValue
             \/ x < b.min_x - TOLERANCE
             \/ x > b.max_x + TOLERANCE
             \/ y < b.min_y - TOLERANCE
             \/ y > b.max_y + TOLERANCE

(* a check_coords whose tolerance band is open: its edge is outside *)
check_coords_Closed(b, coords) ==
    IF ~b.calibrated \/ coords = NoCoords THEN TRUE
    ELSE LET x == coords[1]
             y == coords[2]
         IN  \/ x = NoValue \/ y = NoValue
             \/ x <= b.min_x - TOLERANCE
             \/ x >= b.max_x + TOLERANCE
             \/ y <= b.min_y - TOLERANCE
             \/ y >= b.max_y + TOLERANCE

check_coords(b, coords) ==
    IF ~b.calibrated \/ coords = NoCoords THEN TRUE
    ELSE LET x == coords[1]
             y == coords[2]
         IN  \/ x = NoValue \/ y = NoValue
             \/ x < b.min_x - TOLERANCE
             \/ x > b.max_x + TOLERANCE
             \/ y < b.min_y - TOLERANCE
             \/ y > b.max_y + TOLERANCE

(* a reset that restores the box and leaves the calibrated flag *)
reset_KeepsCalibrated(b) ==
    [b EXCEPT !.min_x = SENTINEL, !.max_x = 0, !.min_y = SENTINEL,
              !.max_y = 0]

(* lines 204-210 *)
reset(b) ==
    [b EXCEPT !.min_x = SENTINEL, !.max_x = 0, !.min_y = SENTINEL,
              !.max_y = 0, !.calibrated = FALSE]

(* ------------------------------------------------------------------ Init *)
Event(kind, from) == [kind |-> kind, from |-> from]
NoEvent == Event("none", NoThread)

NoObs ==
    [kind |-> "none", branch |-> IDLE, raised |-> FALSE,
     located |-> FALSE, left_coords |-> NoCoords, right_coords |-> NoCoords,
     is_focused |-> FALSE, is_alerting |-> FALSE, adjusted |-> FALSE,
     status_msg |-> "", fin_start |-> NoTime, fin_end |-> NoTime]

NoStreak == [start |-> NoTime, crossed |-> FALSE, alerts |-> 0]

(* no call made yet *)
NoCall == [op |-> "none", n |-> 0]

Init ==
    /\ state = IDLE
    /\ webcam = "None"
    /\ tracking_thread = NoThread
    /\ eyeLeft_boundary = FreshBoundary
    /\ eyeRight_boundary = FreshBoundary
    /\ study_time = StudySecs
    /\ consecutive_unfocused_start = NoTime
    /\ alert_sounded = FALSE
    /\ ui_stack = << >>
    /\ ui_event = NoEvent
    /\ ui_status = ""
    /\ closed = FALSE
    /\ queue = << >>
    /\ pc = [w \in Workers |-> "unborn"]
    /\ session_running = [w \in Workers |-> FALSE]
    /\ session_start_time = [w \in Workers |-> NoTime]
    /\ last_sample_time = [w \in Workers |-> NoTime]
    /\ timeline = [w \in Workers |-> << >>]
    /\ finishes = [w \in Workers |-> 0]
    /\ now = 0
    /\ obs = NoObs
    /\ streak = NoStreak
    /\ db = << >>
    /\ shown = << >>
    /\ call = NoCall

(* --------------------------------------------------------- the UI thread *)
UiIdle == ui_stack = << >>

(* closeEvent has returned (line 938): the application quits, and its       *)
(* daemon threads end with it                                               *)
Exited == closed /\ UiIdle

(* set_state(new_state), lines 728-735, when self.state # new_state: the    *)
(* write of self.state; the branch on new_state is the next UI step.        *)
EnterSetState(new_state) ==
    /\ state' = new_state
    /\ ui_stack' = Append(ui_stack, new_state)
    /\ streak' = IF new_state = SESSION THEN NoStreak ELSE streak

(* set_state without the test of line 730 *)
CallSetState_NoGuard(new_state, event) ==
    /\ ui_status' = ""
    /\ ui_event' = event
    /\ EnterSetState(new_state)

(* set_state(new_state), lines 728-730, called from the event loop *)
CallSetState(new_state, event) ==
    /\ ui_status' = ""
    /\ IF state = new_state
       THEN /\ ui_event' = NoEvent
            /\ UNCHANGED << state, ui_stack, streak >>
       ELSE /\ ui_event' = event
            /\ EnterSetState(new_state)

press_button ==
    /\ UiIdle /\ ~closed
    /\ CallSetState((state + 1) % 3, Event("press", NoThread))
    /\ UNCHANGED << webcam, tracking_thread, boundaryVars, study_time,
                    sharedVars, closed, queue, workerVars, now >>
    /\ obs' = NoObs
    /\ UNCHANGED unitVars

closeEvent ==
    /\ UiIdle /\ ~closed
    /\ closed' = TRUE
    /\ CallSetState(IDLE, Event("close", NoThread))
    /\ UNCHANGED << webcam, tracking_thread, boundaryVars, study_time,
                    sharedVars, queue, workerVars, now >>
    /\ obs' = NoObs
    /\ UNCHANGED unitVars

(* the slot of a queued update_state_signal: set_state(0) *)
DeliverStateSignal ==
    /\ UiIdle /\ ~closed
    /\ queue # << >>
    /\ queue' = Tail(queue)
    /\ CallSetState(IDLE, Event("signal", Head(queue)))
    /\ UNCHANGED << webcam, tracking_thread, boundaryVars, study_time,
                    sharedVars, closed, workerVars, now >>
    /\ obs' = NoObs
    /\ UNCHANGED unitVars

Top == ui_stack[Len(ui_stack)]

(* the innermost set_state returns, and with it every caller (lines 747,    *)
(* 754, 764): the UI thread is back in its event loop                       *)
Return ==
    /\ ui_stack' = << >>
    /\ ui_event' = NoEvent
    /\ ui_status' = ""

Unborn == { w \in Workers : pc[w] = "unborn" }

(* cv2.VideoCapture(0), line 740: opened, an object that is not opened, or  *)
(* an exception (self.webcam keeps its value)                               *)
OpenOutcomes == { "opened", "unopened", "raise" }

(* set_state, new_state == 1, lines 736-749 *)
SetStateCalibrating ==
    /\ ~UiIdle /\ Top = CALIBRATING
    /\ eyeLeft_boundary' = reset(eyeLeft_boundary)
    /\ eyeRight_boundary' = reset(eyeRight_boundary)
    /\ \E o \in OpenOutcomes :
         IF o = "opened"
         THEN /\ Unborn # {}
              /\ LET w == CHOOSE u \in Unborn : \A v \in Unborn : u <= v
                 IN  /\ pc' = [pc EXCEPT ![w] = "check"]
                     /\ tracking_thread' = w
              /\ webcam' = "opened"
              /\ Return
              /\ UNCHANGED << state, streak >>
         ELSE /\ webcam' = IF o = "unopened" THEN "unopened" ELSE webcam
              /\ ui_status' = "Error: Cannot open webcam."
              /\ EnterSetState(IDLE)
              /\ UNCHANGED << pc, tracking_thread, ui_event >>
    /\ UNCHANGED << study_time, sharedVars, closed, queue,
                    session_running, session_start_time, last_sample_time,
                    timeline, finishes, now >>
    /\ obs' = NoObs
    /\ UNCHANGED unitVars

(* set_state, new_state == 2, lines 750-754 and 764 *)
SetStateSession ==
    /\ ~UiIdle /\ Top = SESSION
    /\ IF ~eyeLeft_boundary.calibrated \/ ~eyeRight_boundary.calibrated
       THEN /\ ui_status' = "Calibration incomplete. Look around more."
            /\ EnterSetState(CALIBRATING)
            /\ UNCHANGED ui_event
       ELSE /\ Return
            /\ UNCHANGED << state, streak >>
    /\ UNCHANGED << webcam, tracking_thread, boundaryVars, study_time,
                    sharedVars, closed, queue, workerVars, now >>
    /\ obs' = NoObs
    /\ UNCHANGED unitVars

(* set_state, new_state == 0, with lines 756-762 left out: the capture is  *)
(* kept.  Not part of Next; C5 is checked not to hold of it.                *)
SetStateIdle_NoRelease ==
    /\ ~UiIdle /\ Top = IDLE
    /\ tracking_thread' = NoThread
    /\ Return
    /\ obs' = NoObs
    /\ UNCHANGED unitVars
    /\ UNCHANGED << state, webcam, boundaryVars, study_time, sharedVars,
                    closed, queue, workerVars, now, streak >>

(* set_state, new_state == 0, lines 755-764 *)
SetStateIdle ==
    /\ ~UiIdle /\ Top = IDLE
    /\ webcam' = "None"
    /\ tracking_thread' = NoThread
    /\ Return
    /\ obs' = NoObs
    /\ UNCHANGED unitVars
    /\ UNCHANGED << state, boundaryVars, study_time, sharedVars, closed,
                    queue, workerVars, now,
                    streak >>

(* ------------------------------------------------------------ the worker *)
(* update_state_signal.emit(0) by worker w, at line 895 or 908: the queued   *)
(* call is kept with the worker that posted it                              *)
Signal(from) == from

(* finish_session, lines 911-930, called by worker w: one more call.  What  *)
(* a call computes, saves and shows is FinishCall of StoreSpec; none of it  *)
(* is read by the state machine.                                            *)
finish_session(w) == [finishes EXCEPT ![w] = @ + 1]

(* what the pupil locator does with a frame: the call that raises, if any,  *)
(* and what it would answer                                                 *)
GazeInputs ==
    { [raise_at |-> r, located |-> FALSE, left |-> NoCoords, right |-> NoCoords] :
        r \in { "none", "refresh", "pupils_located" } }
    \cup
    { [raise_at |-> r, located |-> TRUE, left |-> p[1], right |-> p[2]] :
        r \in { "none", "refresh", "pupils_located", "pupil_left_coords",
                "pupil_right_coords" },
        p \in PupilPairs }

(* lines 829-840: pupils_located, left_coords, right_coords and status_msg  *)
(* after the try block around the pupil locator                             *)
Seen(gz) ==
    LET raised == gz.raise_at # "none"
        before == gz.raise_at \in { "refresh", "pupils_located" }
    IN  [raised |-> raised,
         pupils_located |-> gz.located /\ ~before,
         left_coords |-> IF gz.located /\ gz.raise_at \in { "none", "pupil_right_coords" }
                         THEN gz.left ELSE NoCoords,
         right_coords |-> IF gz.located /\ gz.raise_at = "none"
                          THEN gz.right ELSE NoCoords,
         status_msg |-> IF raised THEN "Tracking Error" ELSE ""]

(* line 867 with 'or' for 'and': one eye outside is enough to lose focus.   *)
(* Not part of the model; C8 is checked not to hold of it.                  *)
IsFocused_EitherEye(left_outside, right_outside) ==
    ~(left_outside \/ right_outside)

(* line 867 *)
IsFocused(left_outside, right_outside) == ~(left_outside /\ right_outside)

(* what one pass through the loop body read and emitted: the branch taken,  *)
(* what the pupil locator left in pupils_located, left_coords and           *)
(* right_coords, the classification, whether a boundary                     *)
(* changed, and the arguments of update_status_signal.emit (status_msg is   *)
(* "" when the text is empty or line 892 was not reached).  Kept when rec   *)
(* is set, NoObs otherwise.                                                 *)
Observe(rec, kind, branch, seen, focused, alerting, adjusted, msg) ==
    IF rec
    THEN [kind |-> kind, branch |-> branch, raised |-> seen.raised,
          located |-> seen.pupils_located, left_coords |-> seen.left_coords,
          right_coords |-> seen.right_coords, is_focused |-> focused,
          is_alerting |-> alerting, adjusted |-> adjusted, status_msg |-> msg,
          fin_start |-> NoTime, fin_end |-> NoTime]
    ELSE NoObs

(* the pass called finish_session(start_time, end_time, ...) at line 890 *)
Finished(o, start_time, end_time) ==
    IF o = NoObs THEN o
    ELSE [o EXCEPT !.fin_start = start_time, !.fin_end = end_time]

NothingSeen ==
    [raised |-> FALSE, pupils_located |-> FALSE, left_coords |-> NoCoords,
     right_coords |-> NoCoords, status_msg |-> ""]

(* lines 892-896: the status is emitted, then the 'q' key posts             *)
(* update_state_signal(0) and leaves the loop                               *)
EndOfBody(w, key) ==
    IF key
    THEN /\ queue' = Append(queue, Signal(w))
         /\ pc' = [pc EXCEPT ![w] = "post"]
    ELSE /\ pc' = [pc EXCEPT ![w] = "check"]
         /\ UNCHANGED queue

(* lines 820-823: self.webcam is None or not opened *)
WebcamError(w, rec) ==
    /\ webcam # "opened"
    /\ obs' = Observe(rec, "webcam_error", state, NothingSeen, FALSE, FALSE,
                      FALSE, "Webcam error.")
    /\ pc' = [pc EXCEPT ![w] = "post"]
    /\ UNCHANGED << boundaryVars, sharedVars, queue, session_running,
                    session_start_time, last_sample_time, timeline, finishes,
                    streak >>

(* lines 897-901: an exception in the body that is not the pupil locator's  *)
(* (the read of the frame raises)                                           *)
LoopException(w, rec) ==
    /\ webcam = "opened"
    /\ obs' = Observe(rec, "exception", state, NothingSeen, FALSE, FALSE,
                      FALSE, "Critical Error in Tracking Loop")
    /\ pc' = [pc EXCEPT ![w] = "post"]
    /\ UNCHANGED << boundaryVars, sharedVars, queue, session_running,
                    session_start_time, last_sample_time, timeline, finishes,
                    streak >>

(* a failed read that leaves the loop, as the webcam error does *)
FrameReadError_Leaves(w, rec) ==
    /\ webcam = "opened"
    /\ obs' = Observe(rec, "read_fail", state, NothingSeen, FALSE, FALSE,
                      FALSE, "Frame read error.")
    /\ pc' = [pc EXCEPT ![w] = "post"]
    /\ UNCHANGED << boundaryVars, sharedVars, queue, session_running,
                    session_start_time, last_sample_time, timeline, finishes,
                    streak >>

(* lines 824-828: read returns ret = False *)
FrameReadError(w, rec) ==
    /\ webcam = "opened"
    /\ obs' = Observe(rec, "read_fail", state, NothingSeen, FALSE, FALSE,
                      FALSE, "Frame read error.")
    /\ pc' = [pc EXCEPT ![w] = "check"]
    /\ UNCHANGED << boundaryVars, sharedVars, queue, session_running,
                    session_start_time, last_sample_time, timeline, finishes,
                    streak >>

Warned(seen) ==
    IF ~seen.pupils_located /\ seen.status_msg = ""
    THEN "Warning: Pupil not detected" ELSE seen.status_msg

(* lines 844-849 *)
CalibratingFrame(w, rec, seen, key) ==
    /\ state = CALIBRATING
    /\ eyeLeft_boundary' = IF seen.pupils_located
                           THEN adjust_coords(eyeLeft_boundary, seen.left_coords)
                           ELSE eyeLeft_boundary
    /\ eyeRight_boundary' = IF seen.pupils_located
                            THEN adjust_coords(eyeRight_boundary, seen.right_coords)
                            ELSE eyeRight_boundary
    /\ obs' = Observe(rec, "frame", CALIBRATING, seen, FALSE, FALSE,
                      << eyeLeft_boundary', eyeRight_boundary' >>
                             # << eyeLeft_boundary, eyeRight_boundary >>,
                      Warned(seen))
    /\ EndOfBody(w, key)
    /\ UNCHANGED << sharedVars, session_running, session_start_time,
                    last_sample_time, timeline, finishes, streak >>

(* lines 872-884: the unfocused streak and the one-shot alert; fire is the   *)
(* beep with trigger_alert_signal.emit()                                    *)
AlertStep(start, sounded, is_focused, t) ==
    IF is_focused
    THEN [start |-> NoTime, sounded |-> FALSE, is_alerting |-> FALSE,
          fire |-> FALSE]
    ELSE IF start = NoTime
         THEN [start |-> t, sounded |-> FALSE, is_alerting |-> FALSE,
               fire |-> FALSE]
         ELSE IF t - start >= ALERT_THRESHOLD_SECONDS
              THEN [start |-> start, sounded |-> TRUE, is_alerting |-> TRUE,
                    fire |-> ~sounded]
              ELSE [start |-> start, sounded |-> sounded,
                    is_alerting |-> FALSE, fire |-> FALSE]

(* the streak of the frames processed in Session, whichever worker          *)
(* processed them: its first unfocused frame, whether a frame of it came    *)
(* ALERT_THRESHOLD_SECONDS or more after the first, and the alerts emitted  *)
(* in it (counted up to 2)                                                  *)
StreakStep(sk, is_focused, fire, t) ==
    IF is_focused THEN NoStreak
    ELSE LET first == IF sk.start = NoTime THEN t ELSE sk.start
         IN  [start |-> first,
              crossed |-> sk.crossed \/ t - first >= ALERT_THRESHOLD_SECONDS,
              alerts |-> Min2(sk.alerts + (IF fire THEN 1 ELSE 0), 2)]

(* a sampling test that is always met *)
SampleDue_Always(current_time, last) == TRUE

(* line 885 *)
SampleDue(current_time, last) ==
    current_time - last >= SAMPLE_INTERVAL_SECONDS

(* lines 850-891 *)
SessionFrame(w, rec, seen, key) ==
    /\ state = SESSION
    /\ LET fresh == ~session_running[w]
           start == IF fresh THEN now ELSE session_start_time[w]
           last == IF fresh THEN now ELSE last_sample_time[w]
           samples == IF fresh THEN << >> ELSE timeline[w]
           elapsed_session_secs == now - start
           left_outside == check_coords(eyeLeft_boundary, seen.left_coords)
           right_outside == check_coords(eyeRight_boundary, seen.right_coords)
           is_focused == seen.pupils_located
                         /\ IsFocused(left_outside, right_outside)
           alert == AlertStep(IF fresh THEN NoTime ELSE consecutive_unfocused_start,
                              IF fresh THEN FALSE ELSE alert_sounded,
                              is_focused, now)
           sample == SampleDue(now, last)
           expired == elapsed_session_secs >= study_time
       IN  /\ session_running' = [session_running EXCEPT ![w] = TRUE]
           /\ session_start_time' = [session_start_time EXCEPT ![w] = start]
           /\ last_sample_time' =
                  [last_sample_time EXCEPT ![w] = IF sample THEN now ELSE last]
           /\ timeline' =
                  [timeline EXCEPT ![w] = IF sample THEN Append(samples, is_focused)
                                          ELSE samples]
           /\ consecutive_unfocused_start' = alert.start
           /\ alert_sounded' = alert.sounded
           /\ streak' = StreakStep(streak, is_focused, alert.fire, now)
           /\ IF expired
              THEN /\ finishes' = finish_session(w)
                   /\ UNCHANGED queue
                   /\ pc' = [pc EXCEPT ![w] = "post"]
                   /\ obs' = Finished(Observe(rec, "finished", SESSION, seen,
                                              is_focused, alert.is_alerting,
                                              FALSE, ""),
                                      start, now)
              ELSE /\ obs' = Observe(rec, "frame", SESSION, seen,
                                     is_focused, alert.is_alerting, FALSE,
                                     Warned(seen))
                   /\ EndOfBody(w, key)
                   /\ UNCHANGED finishes
    /\ UNCHANGED boundaryVars

(* neither branch of lines 844 / 850: self.state is 0 by now *)
IdleFrame(w, rec, seen, key) ==
    /\ state = IDLE
    /\ obs' = Observe(rec, "frame", IDLE, seen, FALSE, FALSE, FALSE,
                      seen.status_msg)
    /\ EndOfBody(w, key)
    /\ UNCHANGED << boundaryVars, sharedVars, session_running,
                    session_start_time, last_sample_time, timeline, finishes,
                    streak >>

(* line 817: the test of the while loop *)
LoopTest(w) ==
    /\ ~Exited
    /\ pc[w] = "check"
    /\ pc' = [pc EXCEPT ![w] = IF state # IDLE THEN "body" ELSE "post"]
    /\ obs' = NoObs
    /\ UNCHANGED unitVars
    /\ UNCHANGED << state, webcam, tracking_thread, boundaryVars, study_time,
                    sharedVars, uiVars, queue, session_running,
                    session_start_time, last_sample_time, timeline, finishes,
                    now, streak >>

(* lines 818-901: one pass through the body of the while loop *)
LoopBody(w, rec) ==
    /\ ~Exited
    /\ pc[w] = "body"
    /\ \/ WebcamError(w, rec)
       \/ LoopException(w, rec)
       \/ FrameReadError(w, rec)
       \/ /\ webcam = "opened"
          /\ \E gz \in GazeInputs, key \in BOOLEAN :
               \/ CalibratingFrame(w, rec, Seen(gz), key)
               \/ SessionFrame(w, rec, Seen(gz), key)
               \/ IdleFrame(w, rec, Seen(gz), key)
    /\ UNCHANGED << state, webcam, tracking_thread, study_time, uiVars, now,
                    unitVars >>

(* lines 902-909: after the loop *)
AfterLoop(w) ==
    /\ ~Exited
    /\ pc[w] = "post"
    /\ finishes' = IF session_running[w] /\ state = IDLE
                    THEN finish_session(w) ELSE finishes
    /\ queue' = Append(queue, Signal(w))
    /\ pc' = [pc EXCEPT ![w] = "done"]
    /\ session_start_time' = [session_start_time EXCEPT ![w] = NoTime]
    /\ last_sample_time' = [last_sample_time EXCEPT ![w] = NoTime]
    /\ timeline' = [timeline EXCEPT ![w] = << >>]
    /\ UNCHANGED << state, webcam, tracking_thread, boundaryVars, study_time,
                    sharedVars, uiVars, session_running, now, streak >>
    /\ obs' = NoObs
    /\ UNCHANGED unitVars

(* ------------------------------------------------------- the environment *)
Tick ==
    /\ ~Exited
    /\ \E t \in Instants : t > now /\ now' = t
    /\ UNCHANGED << state, webcam, tracking_thread, boundaryVars, study_time,
                    sharedVars, uiVars, queue, workerVars, streak >>
    /\ obs' = NoObs
    /\ UNCHANGED unitVars

(* the camera goes away: isOpened() is false from now on *)
CameraLost ==
    /\ ~Exited
    /\ webcam = "opened"
    /\ webcam' = "unopened"
    /\ UNCHANGED << state, tracking_thread, boundaryVars, study_time,
                    sharedVars, uiVars, queue, workerVars, now, streak >>
    /\ obs' = NoObs
    /\ UNCHANGED unitVars

Next ==
    \/ press_button
    \/ closeEvent
    \/ DeliverStateSignal
    \/ SetStateCalibrating
    \/ SetStateSession
    \/ SetStateIdle
    \/ \E w \in Workers : LoopTest(w)
    \/ \E w \in Workers : LoopBody(w, FALSE)
    \/ \E w \in Workers : AfterLoop(w)
    \/ Tick
    \/ CameraLost

Spec == Init /\ [][Next]_vars

(* the worker threads are scheduled: a worker that can take its next step   *)
(* eventually takes it                                                      *)
FairSpec ==
    /\ Spec
    /\ \A w \in Workers : /\ WF_vars(LoopTest(w))
                          /\ WF_vars(LoopBody(w, FALSE))
                          /\ WF_vars(AfterLoop(w))

(* ------------------------------------------------- one worker, frame by  *)
(* frame: the first worker is in its loop, before the test or in the body,  *)
(* in any of the three states, with the boundaries as up to two calibration *)
(* frames leave them                                                        *)
Calibrate(bs, p) == << adjust_coords(bs[1], p[1]), adjust_coords(bs[2], p[2]) >>

Calibrations ==
    LET c0 == { << FreshBoundary, FreshBoundary >> }
        c1 == c0 \cup { Calibrate(bs, p) : bs \in c0, p \in PupilPairs }
    IN  c1 \cup { Calibrate(bs, p) : bs \in c1, p \in PupilPairs }

FrameInit ==
    /\ state \in { IDLE, CALIBRATING, SESSION }
    /\ webcam = "opened"
    /\ tracking_thread = 1
    /\ \E bs \in Calibrations : /\ eyeLeft_boundary = bs[1]
                                /\ eyeRight_boundary = bs[2]
    /\ study_time = StudySecs
    /\ consecutive_unfocused_start = NoTime
    /\ alert_sounded = FALSE
    /\ ui_stack = << >>
    /\ ui_event = NoEvent
    /\ ui_status = ""
    /\ closed = FALSE
    /\ queue = << >>
    /\ \E at \in { "check", "body" } :
         pc = [w \in Workers |-> IF w = 1 THEN at ELSE "unborn"]
    /\ session_running = [w \in Workers |-> FALSE]
    /\ session_start_time = [w \in Workers |-> NoTime]
    /\ last_sample_time = [w \in Workers |-> NoTime]
    /\ timeline = [w \in Workers |-> << >>]
    /\ finishes = [w \in Workers |-> 0]
    /\ now = 0
    /\ obs = NoObs
    /\ streak = NoStreak
    /\ db = << >>
    /\ shown = << >>
    /\ call = NoCall

FrameNext ==
    \/ \E w \in Workers : LoopTest(w)
    \/ \E w \in Workers : LoopBody(w, TRUE)
    \/ \E w \in Workers : AfterLoop(w)
    \/ Tick
    \/ CameraLost

FrameSpec == FrameInit /\ [][FrameNext]_vars

(* ================================================================ claims *)
BothCalibrated == eyeLeft_boundary.calibrated /\ eyeRight_boundary.calibrated

(* a Calibrate press was rejected: set_state(2) has called set_state(1)     *)
RejectedPress == Len(ui_stack) >= 2 /\ ui_stack[1] = SESSION

Alive == { w \in Workers : pc[w] \in { "check", "body", "post" } }

(* C1: self.state is Session only while both eye boundaries are calibrated, *)
(* at every instant a worker can read it, the instants inside a rejected    *)
(* transition included; and a press rejected for want of calibration leaves *)
(* the machine in Calibrating with the status 'Calibration incomplete. Look *)
(* around more.'                                                            *)
C1_SessionOnlyIfCalibrated ==
    /\ state = SESSION => BothCalibrated
    /\ RejectedPress =>
          /\ state = CALIBRATING
          /\ ui_status = "Calibration incomplete. Look around more."

(* C2: at most one tracking worker is alive at any time *)
C2_AtMostOneWorker == Cardinality(Alive) <= 1

(* C3: when the machine has gone from Session to Idle while a worker had a  *)
(* session running, that worker has called finish_session by the time it    *)
(* has terminated, however the loop was left                                *)
C3_FinishOnEveryExit ==
    \A w \in Workers :
        pc[w] = "done" /\ session_running[w] /\ state = IDLE
            => finishes[w] >= 1

(* C4: a worker calls finish_session at most once for its session *)
C4_FinishAtMostOnce == \A w \in Workers : finishes[w] <= 1

CannotOpen == "Error: Cannot open webcam."

(* set_state(1), called from Idle, is handling a failed open *)
OpenFailed == ui_stack = << CALIBRATING, IDLE >>

(* C5: when the frame source cannot be opened on entering Calibrating from  *)
(* Idle, the status 'Error: Cannot open webcam.' is emitted and the state   *)
(* is Idle again at once; no worker is started and no session is finalized  *)
(* by the transition, and the handler returns with the state Idle and the   *)
(* frame source None                                                        *)
C5_OpenFailureFromIdle ==
    [][ /\ (ui_stack = << CALIBRATING >> /\ OpenFailed') =>
              /\ state' = IDLE
              /\ ui_status' = CannotOpen
              /\ Unborn' = Unborn
              /\ finishes' = finishes
        /\ OpenFailed =>
              /\ state' = IDLE
              /\ Unborn' = Unborn
              /\ ui_status = CannotOpen
        /\ (OpenFailed /\ ~OpenFailed') =>
              /\ UiIdle'
              /\ webcam' = "None"
              /\ tracking_thread' = NoThread
              /\ finishes' = finishes ]_vars

(* the open has failed with a capture object that is not opened, and        *)
(* set_state(0) is about to release it                                      *)
C5_Witness ==
    /\ OpenFailed
    /\ state = IDLE
    /\ webcam = "unopened"
    /\ ui_status = CannotOpen
    /\ Alive = {}

(* C6: once the state is Idle, a worker that is in its loop eventually      *)
(* terminates (or the application has quit), whatever the UI thread does in *)
(* the meantime                                                             *)
C6_WorkerTerminates ==
    \A w \in Workers :
        (state = IDLE /\ pc[w] \in { "check", "body" })
            ~> (pc[w] = "done" \/ Exited)

(* C7: the state goes from Calibrating to Idle only by an explicit          *)
(* cancellation (the window is closed) or by a frame-source failure of the  *)
(* current calibration (the open fails, or the signal comes from the worker *)
(* self.tracking_thread names): a state-0 signal posted by the worker of an *)
(* earlier calibration or session never does it                             *)
C7_CalibratingToIdle ==
    [][ (state = CALIBRATING /\ state' = IDLE) =>
            \/ ui_event'.kind = "close"
            \/ ~UiIdle /\ Top = CALIBRATING /\ ui_status' = CannotOpen
            \/ /\ ui_event'.kind = "signal"
               /\ ui_event'.from = tracking_thread ]_vars

(* the loop body just run was a frame processed in the Session branch *)
SessionObs == obs.kind \in { "frame", "finished" } /\ obs.branch = SESSION

(* C8: a frame processed in Session is focused exactly when the pupils were *)
(* located and the two eyes are not both outside their boundaries: false    *)
(* when the pupils were not located; with one eye outside and the other     *)
(* inside, focused                                                          *)
C8_FocusClassification ==
    SessionObs =>
        obs.is_focused =
            (/\ obs.located
             /\ ~(/\ check_coords(eyeLeft_boundary, obs.left_coords)
                  /\ check_coords(eyeRight_boundary, obs.right_coords)))

(* a located frame with the left eye inside and the right eye outside *)
C8_Witness ==
    /\ SessionObs
    /\ obs.located /\ ~obs.raised
    /\ BothCalibrated
    /\ ~check_coords(eyeLeft_boundary, obs.left_coords)
    /\ check_coords(eyeRight_boundary, obs.right_coords)
    /\ obs.is_focused

(* C9: within one unfocused streak of a session the alert fires exactly     *)
(* once, at the first frame whose time since the start of the streak is     *)
(* ALERT_THRESHOLD_SECONDS or more: no alert before it, one from it on      *)
C9_AlertOncePerStreak ==
    streak.alerts = IF streak.crossed THEN 1 ELSE 0

(* C10: when the pupil locator raises anywhere on a frame, the frame is     *)
(* treated as not located: no boundary is adjusted in Calibrating, the      *)
(* frame is not focused in Session, a status message is emitted and the     *)
(* loop goes on                                                             *)
C10_LocatorFailureIsNotLocated ==
    (obs.kind \in { "frame", "finished" } /\ obs.raised) =>
        /\ ~obs.adjusted
        /\ ~obs.is_focused
        /\ obs.status_msg # ""

(* ------------------------------------------------- one EyeBoundary, call  *)
(* by call: eyeLeft_boundary, as constructed, is driven through             *)
(* adjust_coords, check_coords and reset                                    *)

(* the observations fed to adjust_coords: None, a pair with a None          *)
(* component, (0, 0), pairs with one zero, pupil positions, and numbers     *)
(* beyond the sentinel and below zero                                       *)
AdjustInputs ==
    { NoCoords, << NoValue, 150 >>, << 150, NoValue >>, << 0, 0 >>,
      << 0, 150 >>, << 150, 0 >>, << 100, 100 >>, << 200, 200 >>,
      << 100, 200 >>, << SENTINEL + 1, 150 >>, << 0 - 5, 150 >> }

(* the coordinates asked of check_coords: the above, and points around the  *)
(* tolerance edge of the box [100,200] x [100,200]                          *)
CheckInputs ==
    AdjustInputs \cup
    { << 150, 150 >>, << 105, 195 >>, << 94, 150 >>, << 206, 150 >>,
      << 95, 150 >>, << 205, 150 >>, << 150, 94 >>, << 150, 206 >>,
      << 150, 95 >>, << 150, 205 >> }

AdjustCall ==
    /\ \E coords \in AdjustInputs :
         /\ eyeLeft_boundary' = adjust_coords(eyeLeft_boundary, coords)
         /\ call' = [op |-> "adjust_coords", arg |-> coords, result |-> FALSE,
                     before |-> eyeLeft_boundary.calibrated]
    /\ UNCHANGED << state, webcam, tracking_thread, eyeRight_boundary,
                    study_time, sharedVars, uiVars, queue, workerVars, now,
                    obs, streak, db, shown >>

CheckCall ==
    /\ \E coords \in CheckInputs :
         call' = [op |-> "check_coords", arg |-> coords,
                  result |-> check_coords(eyeLeft_boundary, coords),
                  before |-> eyeLeft_boundary.calibrated]
    /\ UNCHANGED << state, webcam, tracking_thread, boundaryVars, study_time,
                    sharedVars, uiVars, queue, workerVars, now, obs, streak,
                    db, shown >>

ResetCall ==
    /\ eyeLeft_boundary' = reset(eyeLeft_boundary)
    /\ call' = [op |-> "reset", arg |-> NoCoords, result |-> FALSE,
                before |-> eyeLeft_boundary.calibrated]
    /\ UNCHANGED << state, webcam, tracking_thread, eyeRight_boundary,
                    study_time, sharedVars, uiVars, queue, workerVars, now,
                    obs, streak, db, shown >>

BoundaryNext == AdjustCall \/ CheckCall \/ ResetCall

BoundarySpec == Init /\ [][BoundaryNext]_vars

(* ------------------------------------------- finalization and the store   *)
(* finish_session and save_session driven by their arguments: the times are *)
(* floats, here whole ticks                                                 *)
Moments == 0..MaxTicks

RECURSIVE SeqsUpTo(_)
SeqsUpTo(n) ==
    IF n = 0 THEN { << >> }
    ELSE LET shorter == SeqsUpTo(n - 1)
         IN  shorter \cup { Append(t, v) : t \in shorter, v \in BOOLEAN }

Timelines == SeqsUpTo(MaxSamples)

(* what the database does with the INSERT: it works, sqlite3 raises, or     *)
(* something else raises                                                    *)
Faults == { "none", "sqlite3.Error", "Exception" }

(* int() of a float: truncation toward zero *)
IntSecs(t) ==
    IF t >= 0 THEN t \div TicksPerSecond
    ELSE 0 - ((0 - t) \div TicksPerSecond)

(* line 918: sum(1 for sample in timeline if sample) *)
RECURSIVE focus_count(_)
focus_count(tl) ==
    IF tl = << >> THEN 0
    ELSE (IF Head(tl) THEN 1 ELSE 0) + focus_count(Tail(tl))

(* lines 915-919 counting the samples that are not true.  Not part of the   *)
(* model; C13 is checked not to hold of it.                                 *)
FocusPercentage_Unfocused(tl) ==
    IF Len(tl) > 0
    THEN [num |-> (Len(tl) - focus_count(tl)) * 100, den |-> Len(tl)]
    ELSE [num |-> 0, den |-> 1]

(* lines 915-919: the percentage as the fraction num / den *)
FocusPercentage(tl) ==
    IF Len(tl) > 0
    THEN [num |-> focus_count(tl) * 100, den |-> Len(tl)]
    ELSE [num |-> 0, den |-> 1]

(* a JSON text is the sequence of its tokens *)
JsonLiteral(sample) == IF sample THEN "true" ELSE "false"

(* a json.dumps that writes the samples last to first *)
JsonDumps_Reversed(tl) ==
    << "[" >> \o [i \in 1..Len(tl) |-> JsonLiteral(tl[Len(tl) + 1 - i])]
              \o << "]" >>

(* json.dumps of a list of booleans, line 55 *)
JsonDumps(tl) ==
    << "[" >> \o [i \in 1..Len(tl) |-> JsonLiteral(tl[i])] \o << "]" >>

(* the texts that are a JSON array of booleans *)
JsonArray(data) ==
    /\ Len(data) >= 2
    /\ data[1] = "[" /\ data[Len(data)] = "]"
    /\ \A i \in 2..(Len(data) - 1) : data[i] \in { "true", "false" }

(* the texts json.loads decodes: an array, or a number, null or an object *)
JsonValid(data) ==
    \/ JsonArray(data)
    \/ data \in { << "42" >>, << "null" >>, << "{", "}" >> }

(* lines 82-86 without the isinstance test: a decoded value that is not a   *)
(* list is kept as the timeline                                             *)
JsonLoads_NoListTest(data) ==
    IF ~JsonValid(data) THEN << >>
    ELSE IF ~JsonArray(data) THEN << "not a list" >>
    ELSE [i \in 1..(Len(data) - 2) |-> data[i + 1] = "true"]

(* lines 81-86: json.loads, with [] for a JSONDecodeError (85-86) and for a *)
(* decoded value that is not a list (83-84)                                 *)
JsonLoads(data) ==
    IF ~JsonValid(data) THEN << >>
    ELSE IF ~JsonArray(data) THEN << >>
    ELSE [i \in 1..(Len(data) - 2) |-> data[i + 1] = "true"]

(* the row of lines 56-59 *)
Row(store, start_time, end_time, focus_percentage, tl) ==
    [session_id |-> Len(store) + 1,
     start_time |-> IntSecs(start_time),
     end_time |-> IntSecs(end_time),
     focus_percentage |-> focus_percentage,
     focus_data |-> JsonDumps(tl)]

(* save_session without its except clauses (lines 62-65): the error leaves  *)
(* the function.  Not part of the model; C14 is checked not to hold of it.  *)
save_session_Uncaught(store, start_time, end_time, focus_percentage, tl, fault) ==
    IF fault = "none"
    THEN [store |-> Append(store, Row(store, start_time, end_time,
                                      focus_percentage, tl)),
          raised |-> FALSE]
    ELSE [store |-> store, raised |-> TRUE]

(* save_session, lines 49-68: the table afterwards, and whether an          *)
(* exception leaves the function.  The row is there after the commit; an    *)
(* error is caught and nothing is stored.                                   *)
save_session(store, start_time, end_time, focus_percentage, tl, fault) ==
    IF fault = "none"
    THEN [store |-> Append(store, Row(store, start_time, end_time,
                                      focus_percentage, tl)),
          raised |-> FALSE]
    ELSE [store |-> store, raised |-> FALSE]

(* load_sessions, lines 70-91: ORDER BY start_time DESC *)
Later(r1, r2) ==
    \/ r1.start_time > r2.start_time
    \/ r1.start_time = r2.start_time /\ r1.session_id < r2.session_id

(* the table is kept by rowid: db[i] is the row with session_id i, or      *)
(* NoRow once it was deleted (AUTOINCREMENT, line 38, never gives a rowid   *)
(* out again)                                                               *)
NoRow == [deleted |-> TRUE]

Live(store) == SelectSeq(store, LAMBDA r : r # NoRow)

(* lines 81-90 and 107-115: the dict made of a row *)
SessionData(row) ==
    [session_id |-> row.session_id,
     start_time |-> row.start_time,
     end_time |-> row.end_time,
     focus_percentage |-> row.focus_percentage,
     timeline |-> JsonLoads(row.focus_data),
     duration_secs |-> row.end_time - row.start_time]

load_sessions(store) ==
    LET rows == SortSeq(Live(store), Later)
    IN  [i \in 1..Len(rows) |-> SessionData(rows[i])]

(* get_session_by_id, lines 94-117: the dict, or None *)
NoSession == [none |-> TRUE]

get_session_by_id(store, session_id) ==
    IF session_id \in 1..Len(store) /\ store[session_id] # NoRow
    THEN SessionData(store[session_id])
    ELSE NoSession

(* a DELETE that takes every row up to the identifier *)
delete_session_UpTo(store, session_id, fault) ==
    IF fault = "none"
    THEN [i \in 1..Len(store) |->
             IF i <= session_id THEN NoRow ELSE store[i]]
    ELSE store

(* delete_session, lines 119-136: DELETE ... WHERE session_id = ?; an       *)
(* error is caught and nothing is deleted                                   *)
delete_session(store, session_id, fault) ==
    IF fault = "none"
    THEN [i \in 1..Len(store) |->
             IF i = session_id THEN NoRow ELSE store[i]]
    ELSE store

(* lines 925-927: the statistics shown *)
Stats(elapsed_secs, focus_percentage) ==
    [minutes_elapsed |-> elapsed_secs \div 60,
     seconds_rem |-> elapsed_secs % 60,
     focus |-> focus_percentage]


(* finish_session(start_time, end_time, timeline), lines 911-930 *)
FinishCall ==
    /\ call.n < MaxCalls
    /\ \E start_time \in Moments, end_time \in Moments, tl \in Timelines,
          fault \in Faults :
         LET elapsed_secs == IntSecs(end_time - start_time)
             focus_percentage == FocusPercentage(tl)
             saved == IF elapsed_secs > 0
                      THEN save_session(db, start_time, end_time,
                                        focus_percentage, tl, fault)
                      ELSE [store |-> db, raised |-> FALSE]
         IN  /\ db' = saved.store
             (* line 929: an exception in the body skips what follows *)
             /\ shown' = IF saved.raised THEN shown
                          ELSE Append(shown,
                                      [stats |-> Stats(elapsed_secs,
                                                       focus_percentage),
                                       timeline |-> tl])
             /\ call' = [op |-> "finish_session", start_time |-> start_time,
                         end_time |-> end_time, timeline |-> tl,
                         focus_percentage |-> focus_percentage,
                         outcome |-> IF elapsed_secs <= 0 THEN "skipped"
                                     ELSE IF fault = "none" THEN "saved"
                                     ELSE "save failed",
                         raised |-> FALSE, n |-> call.n + 1]
    /\ UNCHANGED << state, webcam, tracking_thread, boundaryVars, study_time,
                    sharedVars, uiVars, queue, workerVars, now, obs, streak >>

(* save_session called on its own (src/test.py), lines 49-68 *)
SaveCall ==
    /\ call.n < MaxCalls
    /\ \E start_time \in Moments, end_time \in Moments, tl \in Timelines,
          fault \in Faults :
         /\ db' = save_session(db, start_time, end_time, FocusPercentage(tl),
                               tl, fault).store
         /\ call' = [op |-> "save_session", start_time |-> start_time,
                     end_time |-> end_time, timeline |-> tl,
                     focus_percentage |-> FocusPercentage(tl),
                     outcome |-> IF fault = "none" THEN "saved"
                                 ELSE "save failed",
                     raised |-> save_session(db, start_time, end_time,
                                             FocusPercentage(tl), tl,
                                             fault).raised,
                     n |-> call.n + 1]
    /\ UNCHANGED << state, webcam, tracking_thread, boundaryVars, study_time,
                    sharedVars, uiVars, queue, workerVars, now, obs, streak,
                    shown >>

StoreNext == FinishCall \/ SaveCall

StoreSpec == Init /\ [][StoreNext]_vars

(* ------------------------------------------------ the table, call by call *)
(* save_session, delete_session and the reads, as src/test.py drives them;  *)
(* a stored timeline text may be overwritten from outside the program       *)
MaxTableCalls == 3

SavedTimelines == { << >>, << TRUE, FALSE >>, << TRUE, TRUE, FALSE, TRUE >> }

(* texts that are not JSON, and JSON that is not a list *)
BadTexts == { << "this is not json" >>, << "{", "}" >>, << "[", "true" >> }

TableFaults == { "none", "sqlite3.Error" }

(* save_session(start_time, end_time, focus_percentage, timeline) *)
TableSave ==
    /\ call.n < MaxTableCalls
    /\ \E start_time \in Moments, end_time \in Moments,
          tl \in SavedTimelines, fault \in TableFaults :
         /\ db' = save_session(db, start_time, end_time, FocusPercentage(tl),
                               tl, fault).store
         /\ call' = [op |-> "save_session", n |-> call.n + 1,
                     session_id |-> Len(db) + 1,
                     start_time |-> start_time, end_time |-> end_time,
                     focus_percentage |-> FocusPercentage(tl),
                     timeline |-> tl, fault |-> fault]
    /\ UNCHANGED << state, webcam, tracking_thread, boundaryVars, study_time,
                    sharedVars, uiVars, queue, workerVars, now, obs, streak,
                    shown >>

(* delete_session(session_id) *)
TableDelete ==
    /\ call.n < MaxTableCalls
    /\ \E session_id \in 1..(MaxTableCalls + 1), fault \in TableFaults :
         /\ db' = delete_session(db, session_id, fault)
         /\ call' = [op |-> "delete_session", n |-> call.n + 1,
                     session_id |-> session_id, start_time |-> 0,
                     end_time |-> 0, focus_percentage |-> FocusPercentage(<< >>),
                     timeline |-> << >>, fault |-> fault]
    /\ UNCHANGED << state, webcam, tracking_thread, boundaryVars, study_time,
                    sharedVars, uiVars, queue, workerVars, now, obs, streak,
                    shown >>

(* UPDATE sessions SET focus_data = ? WHERE session_id = ?, as              *)
(* src/test.py:247-255 and 284-291 corrupt a stored row                     *)
CorruptRow ==
    /\ call.n < MaxTableCalls
    /\ \E session_id \in 1..Len(db), text \in BadTexts :
         /\ db[session_id] # NoRow
         /\ db' = [db EXCEPT ![session_id].focus_data = text]
         /\ call' = [op |-> "corrupt", n |-> call.n + 1,
                     session_id |-> session_id, start_time |-> 0,
                     end_time |-> 0, focus_percentage |-> FocusPercentage(<< >>),
                     timeline |-> << >>, fault |-> "none"]
    /\ UNCHANGED << state, webcam, tracking_thread, boundaryVars, study_time,
                    sharedVars, uiVars, queue, workerVars, now, obs, streak,
                    shown >>

TableNext == TableSave \/ TableDelete \/ CorruptRow

TableSpec == Init /\ [][TableNext]_vars

(* ------------------------------------------------------- the weekly sums  *)
(* get_weekly_stats over stored sessions.  A day has DaySecs seconds        *)
(* (24 * 60 * 60 in the code); second 0 is Thursday 00:00 UTC.              *)
DaySecs == 4
MaxWeekRows == 2

(* the first Monday 00:00 after second 0, and the one a week later, as      *)
(* wall-clock seconds                                                       *)
FirstMonday == 4 * DaySecs
NextMonday == 11 * DaySecs

(* local time: the UTC offset is zone.before up to the instant zone.change  *)
(* and zone.after from it on.  A fixed zone, one that sets its clocks back  *)
(* on the Sunday of the week, and one that sets them forward on it.         *)
Zones ==
    { [change |-> 0, before |-> 0, after |-> 0],
      [change |-> 10 * DaySecs + 1, before |-> 1, after |-> 0],
      [change |-> 10 * DaySecs + 1, before |-> 0, after |-> 1] }

utcoffset(zone, ts) == IF ts < zone.change THEN zone.before ELSE zone.after

(* datetime.datetime.fromtimestamp(ts): the naive local wall clock *)
fromtimestamp(zone, ts) == ts + utcoffset(zone, ts)

(* the fold fromtimestamp sets: this wall clock was shown once before *)
fold(zone, ts) ==
    /\ ts >= zone.change
    /\ (ts + zone.after) - zone.before < zone.change

(* datetime.timestamp() of a naive wall-clock time: the instant that shows  *)
(* it; of two such instants the first unless fold is set; in a gap the      *)
(* offset before it unless fold is set                                      *)
timestamp(zone, wall, folded) ==
    LET first == wall - zone.before
        second == wall - zone.after
    IN  IF first < zone.change /\ second >= zone.change
        THEN (IF folded THEN second ELSE first)
        ELSE IF first < zone.change THEN first
        ELSE IF second >= zone.change THEN second
        ELSE (IF folded THEN second ELSE first)

(* datetime.weekday(): 0 = Monday; day 0 is a Thursday *)
weekday(wall) == ((wall \div DaySecs) + 3) % 7

(* replace(hour=0, minute=0, second=0, microsecond=0) *)
Midnight(wall) == (wall \div DaySecs) * DaySecs

(* lines 144-146 *)
start_of_week_ts(zone, start_date_timestamp) ==
    LET start_dt == fromtimestamp(zone, start_date_timestamp)
        start_of_week_dt == start_dt - weekday(start_dt) * DaySecs
    IN  timestamp(zone, Midnight(start_of_week_dt), FALSE)

(* lines 160-167 for one row: the day index and the seconds it adds *)
Counted(zone, week_ts, row) ==
    LET session_start_dt == fromtimestamp(zone, row.start_time)
        back == timestamp(zone, session_start_dt,
                          fold(zone, row.start_time))
    IN  /\ row.start_time >= week_ts
        /\ row.start_time < week_ts + 7 * DaySecs + DaySecs
        /\ back >= week_ts
        /\ back < week_ts + 7 * DaySecs
        /\ row.end_time - row.start_time > 0

RECURSIVE daily_total(_, _, _, _)
daily_total(zone, week_ts, rows, day_index) ==
    IF rows = << >> THEN 0
    ELSE (IF /\ Counted(zone, week_ts, Head(rows))
             /\ weekday(fromtimestamp(zone, Head(rows).start_time))
                    = day_index
          THEN Head(rows).end_time - Head(rows).start_time
          ELSE 0)
         + daily_total(zone, week_ts, Tail(rows), day_index)

(* get_weekly_stats(start_date_timestamp), lines 138-171, in the time zone  *)
(* of the process: the seven totals, Monday first                           *)
get_weekly_stats(store, zone, start_date_timestamp) ==
    LET week_ts == start_of_week_ts(zone, start_date_timestamp)
    IN  [d \in 1..7 |-> daily_total(zone, week_ts, Live(store), d - 1)]

(* the seconds at which stored sessions start: around the two Mondays and   *)
(* in mid-week; and how long they last                                      *)
WeekStamps ==
    ((FirstMonday - 2)..(FirstMonday + 1))
        \cup { FirstMonday + 2 * DaySecs + 1 }
        \cup ((NextMonday - 3)..(NextMonday + 1))

Durations == { 0 - 1, 0, 1, 2 }

(* the reference timestamps: in the week, on its Sunday, on the next Monday *)
RefStamps ==
    { FirstMonday, FirstMonday + 2 * DaySecs + 1, NextMonday - 2,
      NextMonday - 1, NextMonday }

WeekSave ==
    /\ Len(db) < MaxWeekRows
    /\ \E start_time \in WeekStamps, duration \in Durations :
         db' = save_session(db, start_time * TicksPerSecond,
                            (start_time + duration) * TicksPerSecond,
                            FocusPercentage(<< TRUE >>), << TRUE >>,
                            "none").store
    /\ call' = [op |-> "save_session", n |-> 0]
    /\ UNCHANGED << state, webcam, tracking_thread, boundaryVars, study_time,
                    sharedVars, uiVars, queue, workerVars, now, obs, streak,
                    shown >>

WeeklyCall ==
    /\ \E t \in RefStamps, zone \in Zones :
         call' = [op |-> "get_weekly_stats", n |-> 0, t |-> t, zone |-> zone,
                  result |-> get_weekly_stats(db, zone, t)]
    /\ UNCHANGED << state, webcam, tracking_thread, boundaryVars, study_time,
                    sharedVars, uiVars, queue, workerVars, now, obs, streak,
                    db, shown >>

WeekNext == WeekSave \/ WeeklyCall

WeekSpec == Init /\ [][WeekNext]_vars

(* ------------------------------------------------- a session, second by  *)
(* second: the Calibrate press has been accepted and the first worker is in  *)
(* its loop; the session is SampleStudySecs long, the clock is read every    *)
(* second up to MaxClock, and the user may stop the session                  *)
SampleStudySecs == 3
MaxClock == 4

SampleInit ==
    /\ state = SESSION
    /\ webcam = "opened"
    /\ tracking_thread = 1
    /\ \E bs \in Calibrations : /\ eyeLeft_boundary = bs[1]
                                /\ eyeRight_boundary = bs[2]
                                /\ bs[1].calibrated /\ bs[2].calibrated
    /\ study_time = SampleStudySecs
    /\ consecutive_unfocused_start = NoTime
    /\ alert_sounded = FALSE
    /\ ui_stack = << >>
    /\ ui_event = NoEvent
    /\ ui_status = ""
    /\ closed = FALSE
    /\ queue = << >>
    /\ pc = [w \in Workers |-> IF w = 1 THEN "check" ELSE "unborn"]
    /\ session_running = [w \in Workers |-> FALSE]
    /\ session_start_time = [w \in Workers |-> NoTime]
    /\ last_sample_time = [w \in Workers |-> NoTime]
    /\ timeline = [w \in Workers |-> << >>]
    /\ finishes = [w \in Workers |-> 0]
    /\ now = 0
    /\ obs = NoObs
    /\ streak = NoStreak
    /\ db = << >>
    /\ shown = << >>
    /\ call = NoCall

(* the Stop press: press_button in Session *)
StopPress == state = SESSION /\ press_button

(* time() one second later *)
SampleTick ==
    /\ ~Exited
    /\ now < MaxClock
    /\ now' = now + 1
    /\ UNCHANGED << state, webcam, tracking_thread, boundaryVars, study_time,
                    sharedVars, uiVars, queue, workerVars, streak >>
    /\ obs' = NoObs
    /\ UNCHANGED unitVars

SampleNext ==
    \/ \E w \in Workers : LoopTest(w)
    \/ \E w \in Workers : LoopBody(w, TRUE)
    \/ \E w \in Workers : AfterLoop(w)
    \/ StopPress
    \/ DeliverStateSignal
    \/ SetStateIdle
    \/ SampleTick

SampleSpec == SampleInit /\ [][SampleNext]_vars

(* --------------------------------------------- a session left to its timer *)
(* the Calibrate press has been accepted: the state is Session, the first    *)
(* worker is in its loop and has not processed a Session frame yet.  From    *)
(* here on there is no user action: no press, no close, no 'q' key.          *)
TimerInit ==
    /\ state = SESSION
    /\ webcam = "opened"
    /\ tracking_thread = 1
    /\ \E bs \in Calibrations : /\ eyeLeft_boundary = bs[1]
                                /\ eyeRight_boundary = bs[2]
                                /\ bs[1].calibrated /\ bs[2].calibrated
    /\ study_time = StudySecs
    /\ consecutive_unfocused_start = NoTime
    /\ alert_sounded = FALSE
    /\ ui_stack = << >>
    /\ ui_event = NoEvent
    /\ ui_status = ""
    /\ closed = FALSE
    /\ queue = << >>
    /\ pc = [w \in Workers |-> IF w = 1 THEN "check" ELSE "unborn"]
    /\ session_running = [w \in Workers |-> FALSE]
    /\ session_start_time = [w \in Workers |-> NoTime]
    /\ last_sample_time = [w \in Workers |-> NoTime]
    /\ timeline = [w \in Workers |-> << >>]
    /\ finishes = [w \in Workers |-> 0]
    /\ now = 0
    /\ obs = NoObs
    /\ streak = NoStreak
    /\ db = << >>
    /\ shown = << >>
    /\ call = NoCall

(* one pass through the loop body in which cv2.waitKey gives no 'q' *)
TimerBody(w) == LoopBody(w, TRUE) /\ queue' = queue

TimerNext ==
    \/ \E w \in Workers : LoopTest(w)
    \/ \E w \in Workers : TimerBody(w)
    \/ \E w \in Workers : AfterLoop(w)
    \/ DeliverStateSignal
    \/ SetStateIdle
    \/ Tick
    \/ CameraLost

(* the worker is scheduled and the UI thread handles its queued events *)
TimerSpec ==
    /\ TimerInit /\ [][TimerNext]_vars
    /\ \A w \in Workers : /\ WF_vars(LoopTest(w))
                          /\ WF_vars(TimerBody(w))
                          /\ WF_vars(AfterLoop(w))
    /\ WF_vars(DeliverStateSignal)
    /\ WF_vars(SetStateIdle)

(* the session of worker w has lasted the study duration or longer *)
Expired(w) ==
    /\ session_running[w]
    /\ now - session_start_time[w] >= study_time

(* C11: when the state is Session and the time since the session start has  *)
(* reached the study duration, then, with the worker and the UI event queue *)
(* scheduled and no user action, finish_session is eventually called for    *)
(* the session and the state eventually becomes Idle                        *)
C11_TimerEndsSession ==
    \A w \in Workers :
        (state = SESSION /\ pc[w] \in { "check", "body" } /\ Expired(w))
            ~> (finishes[w] >= 1 /\ state = IDLE)

(* C12: no record with end_time <= start_time is ever in the store: after   *)
(* any sequence of finish_session and save_session calls, load_sessions     *)
(* returns no session with end - start <= 0                                 *)
C12_NoEmptySessionStored ==
    LET sessions == load_sessions(db)
    IN  \A i \in 1..Len(sessions) :
            sessions[i].end_time - sessions[i].start_time > 0

(* the call just made was finish_session *)
FinishMade == call.op = "finish_session"

(* C13: finish_session computes focus_percentage = 100 * (true samples) /   *)
(* (samples) for a non-empty timeline and 0 for an empty one; the value is  *)
(* within 0..100, and it is 100 exactly when there is a sample and every    *)
(* sample is true                                                           *)
C13_FocusPercentage ==
    FinishMade =>
        LET tl == call.timeline
            p == call.focus_percentage
            trues == Cardinality({ i \in 1..Len(tl) : tl[i] })
        IN  /\ p.den > 0
            /\ Len(tl) > 0 => p.num * Len(tl) = 100 * trues * p.den
            /\ Len(tl) = 0 => p.num = 0
            /\ 0 <= p.num /\ p.num <= 100 * p.den
            /\ p.num = 100 * p.den <=>
                   (Len(tl) > 0 /\ \A i \in 1..Len(tl) : tl[i])

(* one sample of two is true: 50 *)
C13_Witness ==
    /\ FinishMade
    /\ call.timeline = << TRUE, FALSE >>
    /\ call.focus_percentage.num * 2 = 100 * call.focus_percentage.den

(* C14: every finish_session call emits exactly one end-of-session          *)
(* notification, with the statistics and the timeline of the call, whether  *)
(* the record was saved, skipped for a duration that is not positive, or    *)
(* the save failed; and no error leaves save_session                        *)
C14_AlwaysNotified ==
    [][ /\ (call' # call /\ call'.op = "finish_session") =>
              LET elapsed_secs == IntSecs(call'.end_time - call'.start_time)
              IN  /\ Len(shown') = Len(shown) + 1
                  /\ SubSeq(shown', 1, Len(shown)) = shown
                  /\ shown'[Len(shown')].timeline = call'.timeline
                  /\ shown'[Len(shown')].stats =
                         [minutes_elapsed |-> elapsed_secs \div 60,
                          seconds_rem |-> elapsed_secs % 60,
                          focus |-> call'.focus_percentage]
        /\ (call' # call /\ call'.op = "save_session") =>
              /\ shown' = shown
              /\ ~call'.raised ]_vars

(* the save of a session of positive duration failed, and the statistics    *)
(* were shown                                                               *)
C14_Witness ==
    /\ FinishMade
    /\ call.outcome = "save failed"
    /\ db = << >>
    /\ Len(shown) = 1
    /\ shown[1].timeline = call.timeline

(* ----------------------------------------------- claims on EyeBoundary    *)
Absent(coords) ==
    coords = NoCoords \/ coords[1] = NoValue \/ coords[2] = NoValue

(* C15: check_coords answers true for every input while the boundary is     *)
(* not calibrated, and, calibrated or not, for absent coordinates and for   *)
(* a pair with an absent component                                          *)
C15_UncalibratedIsOutside ==
    /\ \A coords \in CheckInputs :
          (~eyeLeft_boundary.calibrated \/ Absent(coords)) =>
              check_coords(eyeLeft_boundary, coords)
    /\ (call.op = "check_coords" /\ (~call.before \/ Absent(call.arg))) =>
          call.result

(* an uncalibrated boundary whose box holds one observation was asked about *)
(* that very point, and answered true                                       *)
C15_Witness ==
    /\ call.op = "check_coords"
    /\ call.result
    /\ ~eyeLeft_boundary.calibrated
    /\ eyeLeft_boundary.min_x = 100 /\ eyeLeft_boundary.max_x = 100
    /\ eyeLeft_boundary.min_y = 100 /\ eyeLeft_boundary.max_y = 100
    /\ call.arg = << 100, 100 >>

Grown(b, coords) ==
    [min_x |-> Min2(b.min_x, coords[1]), max_x |-> Max2(b.max_x, coords[1]),
     min_y |-> Min2(b.min_y, coords[2]), max_y |-> Max2(b.max_y, coords[2])]

Box(b) ==
    [min_x |-> b.min_x, max_x |-> b.max_x, min_y |-> b.min_y,
     max_y |-> b.max_y]

(* C16: after every adjust_coords call the boundary is calibrated exactly   *)
(* when its box has positive width and positive height; no call but reset   *)
(* shrinks the box or takes calibrated back to false                        *)
C16_CalibratedIffBoxOpen ==
    [][ /\ eyeLeft_boundary'.calibrated <=>
              /\ eyeLeft_boundary'.max_x > eyeLeft_boundary'.min_x
              /\ eyeLeft_boundary'.max_y > eyeLeft_boundary'.min_y
        /\ (call'.op = "adjust_coords" \/ call'.op = "check_coords") =>
              /\ eyeLeft_boundary'.min_x <= eyeLeft_boundary.min_x
              /\ eyeLeft_boundary'.max_x >= eyeLeft_boundary.max_x
              /\ eyeLeft_boundary'.min_y <= eyeLeft_boundary.min_y
              /\ eyeLeft_boundary'.max_y >= eyeLeft_boundary.max_y
              /\ eyeLeft_boundary.calibrated => eyeLeft_boundary'.calibrated
      ]_vars

(* observations that differ in one direction only: the box has height, no   *)
(* width, and the boundary is not calibrated                                *)
C16_Witness ==
    /\ call.op = "adjust_coords"
    /\ call.arg = << 100, 200 >>
    /\ eyeLeft_boundary.min_x = 100 /\ eyeLeft_boundary.max_x = 100
    /\ eyeLeft_boundary.min_y = 100 /\ eyeLeft_boundary.max_y = 200
    /\ ~eyeLeft_boundary.calibrated

Ignored(coords) == Absent(coords) \/ coords = << 0, 0 >>

(* a boundary as constructed, or as reset leaves it *)
Pristine(b) == b = FreshBoundary \/ b = reset(b)

Degenerate(b, coords) ==
    /\ b.min_x = coords[1] /\ b.max_x = coords[1]
    /\ b.min_y = coords[2] /\ b.max_y = coords[2]
    /\ ~b.calibrated

(* C17, as stated: the first observation adjust_coords accepts on a fresh   *)
(* or reset boundary leaves the box at that one point and calibrated false, *)
(* for every numeric pair that is not ignored                               *)
C17_FirstObservationDegenerate ==
    [][ ( /\ call'.op = "adjust_coords"
          /\ Pristine(eyeLeft_boundary)
          /\ ~Ignored(call'.arg) ) =>
            Degenerate(eyeLeft_boundary', call'.arg) ]_vars

(* C17, amended: the same, for every accepted pair whose components lie     *)
(* between 0 and the sentinel 1,000,000                                     *)
C17_FirstObservationInRange ==
    [][ ( /\ call'.op = "adjust_coords"
          /\ Pristine(eyeLeft_boundary)
          /\ ~Ignored(call'.arg)
          /\ call'.arg[1] >= 0 /\ call'.arg[1] <= 1000000
          /\ call'.arg[2] >= 0 /\ call'.arg[2] <= 1000000 ) =>
            Degenerate(eyeLeft_boundary', call'.arg) ]_vars

(* a boundary took (0, 150) as its first observation: its box is that      *)
(* point                                                                    *)
C17_Witness ==
    /\ call.op = "adjust_coords"
    /\ call.arg = << 0, 150 >>
    /\ Degenerate(eyeLeft_boundary, << 0, 150 >>)

(* C18: adjust_coords changes nothing for absent coordinates, for a pair    *)
(* with an absent component and for (0, 0); a pair with exactly one zero    *)
(* component is applied as an observation                                   *)
C18_IgnoredObservations ==
    [][ call'.op = "adjust_coords" =>
          /\ Ignored(call'.arg) => eyeLeft_boundary' = eyeLeft_boundary
          /\ ( /\ ~Absent(call'.arg)
               /\ (call'.arg[1] = 0) # (call'.arg[2] = 0) ) =>
                 Box(eyeLeft_boundary') = Grown(eyeLeft_boundary, call'.arg)
      ]_vars

(* (150, 0) was applied to a box that held (100, 100): the box now reaches  *)
(* down to y = 0                                                            *)
C18_Witness ==
    /\ call.op = "adjust_coords"
    /\ call.arg = << 150, 0 >>
    /\ Box(eyeLeft_boundary) =
          [min_x |-> 100, max_x |-> 150, min_y |-> 0, max_y |-> 100]

(* the rule of the claim, with its tolerance of 5 pixels written out *)
OutsideBand(b, coords) ==
    \/ coords[1] < b.min_x - 5
    \/ coords[1] > b.max_x + 5
    \/ coords[2] < b.min_y - 5
    \/ coords[2] > b.max_y + 5

Box100To200 ==
    [min_x |-> 100, max_x |-> 200, min_y |-> 100, max_y |-> 200]

(* C19: on a calibrated boundary and present coordinates check_coords       *)
(* answers true exactly when the point is more than 5 pixels beyond a side  *)
(* of the box, so a point on the edge of the tolerance band is inside; for  *)
(* the box [100,200] x [100,200], (105, 195) is inside and (94, 150) and    *)
(* (206, 150) are outside                                                   *)
C19_ToleranceBand ==
    /\ eyeLeft_boundary.calibrated =>
          \A coords \in CheckInputs :
              ~Absent(coords) =>
                  (check_coords(eyeLeft_boundary, coords) <=>
                       OutsideBand(eyeLeft_boundary, coords))
    /\ ( /\ call.op = "check_coords"
         /\ call.before
         /\ ~Absent(call.arg) ) =>
           (call.result <=> OutsideBand(eyeLeft_boundary, call.arg))
    /\ ( /\ eyeLeft_boundary.calibrated
         /\ Box(eyeLeft_boundary) = Box100To200 ) =>
           /\ ~check_coords(eyeLeft_boundary, << 105, 195 >>)
           /\ check_coords(eyeLeft_boundary, << 94, 150 >>)
           /\ check_coords(eyeLeft_boundary, << 206, 150 >>)
           /\ ~check_coords(eyeLeft_boundary, << 95, 150 >>)
           /\ ~check_coords(eyeLeft_boundary, << 205, 150 >>)
           /\ ~check_coords(eyeLeft_boundary, << 150, 95 >>)
           /\ ~check_coords(eyeLeft_boundary, << 150, 205 >>)
           /\ check_coords(eyeLeft_boundary, << 150, 94 >>)
           /\ check_coords(eyeLeft_boundary, << 150, 206 >>)

(* the boundary calibrated to [100,200] x [100,200] was asked about         *)
(* (205, 150), on the edge of the band, and answered that it is inside      *)
C19_Witness ==
    /\ eyeLeft_boundary.calibrated
    /\ Box(eyeLeft_boundary) = Box100To200
    /\ call.op = "check_coords"
    /\ call.arg = << 205, 150 >>
    /\ ~call.result

(* C20: reset returns the boundary to its constructed state, minima at      *)
(* 1,000,000, maxima at 0 and calibrated false, after which check_coords    *)
(* answers true for every input; a second reset changes nothing             *)
C20_ResetRestoresConstruction ==
    [][ call'.op = "reset" =>
          /\ eyeLeft_boundary' =
                 [min_x |-> 1000000, max_x |-> 0, min_y |-> 1000000,
                  max_y |-> 0, calibrated |-> FALSE]
          /\ eyeLeft_boundary' = FreshBoundary
          /\ \A coords \in CheckInputs :
                 check_coords(eyeLeft_boundary', coords)
          /\ reset(eyeLeft_boundary') = eyeLeft_boundary' ]_vars

(* a calibrated boundary was reset                                          *)
C20_Witness ==
    /\ call.op = "reset"
    /\ call.before
    /\ eyeLeft_boundary = FreshBoundary

(* ------------------------------------------------- claims on the table    *)
Saved == call.op = "save_session" /\ call.fault = "none"

(* the record of the session just saved is among those load_sessions        *)
(* returns and is what get_session_by_id returns for its identifier         *)
Reloaded(rec) ==
    /\ rec = get_session_by_id(db, call.session_id)
    /\ \E i \in 1..Len(load_sessions(db)) : load_sessions(db)[i] = rec

(* C21, as stated: a saved session reloads with the same start_time,        *)
(* end_time and focus_percentage, the same ordered timeline, and            *)
(* duration_secs = end - start (times compared in ticks)                    *)
C21_RoundTrip ==
    Saved =>
      \E rec \in { get_session_by_id(db, call.session_id) } :
        /\ Reloaded(rec)
        /\ rec.start_time * TicksPerSecond = call.start_time
        /\ rec.end_time * TicksPerSecond = call.end_time
        /\ rec.focus_percentage = call.focus_percentage
        /\ rec.timeline = call.timeline
        /\ rec.duration_secs * TicksPerSecond =
               call.end_time - call.start_time

(* C21, amended: a saved session reloads with start_time and end_time       *)
(* truncated to whole seconds, duration_secs the difference of the two      *)
(* truncations, and focus_percentage and the ordered timeline unchanged; so *)
(* times given in whole seconds reload as they were, and                    *)
(* [true, true, false, true] reloads unchanged with 75 per cent             *)
C21_RoundTripWholeSeconds ==
    Saved =>
      \E rec \in { get_session_by_id(db, call.session_id) } :
        /\ Reloaded(rec)
        /\ rec.start_time = IntSecs(call.start_time)
        /\ rec.end_time = IntSecs(call.end_time)
        /\ rec.focus_percentage = call.focus_percentage
        /\ rec.timeline = call.timeline
        /\ rec.duration_secs =
               IntSecs(call.end_time) - IntSecs(call.start_time)
        /\ ( /\ call.start_time % TicksPerSecond = 0
             /\ call.end_time % TicksPerSecond = 0 ) =>
               /\ rec.start_time * TicksPerSecond = call.start_time
               /\ rec.end_time * TicksPerSecond = call.end_time
               /\ rec.duration_secs * TicksPerSecond =
                      call.end_time - call.start_time
        /\ call.timeline = << TRUE, TRUE, FALSE, TRUE >> =>
               /\ rec.timeline = << TRUE, TRUE, FALSE, TRUE >>
               /\ rec.focus_percentage.num = 75 * rec.focus_percentage.den

(* the session [true, true, false, true], from second 0 to second 1, was    *)
(* saved next to an earlier one and reloads through both reads              *)
C21_Witness ==
    /\ Saved
    /\ call.session_id = 2
    /\ db[1] # NoRow
    /\ call.start_time = 0 /\ call.end_time = TicksPerSecond
    /\ call.timeline = << TRUE, TRUE, FALSE, TRUE >>
    /\ get_session_by_id(db, 2).timeline = << TRUE, TRUE, FALSE, TRUE >>
    /\ get_session_by_id(db, 2).duration_secs = 1
    /\ \E i \in 1..Len(load_sessions(db)) :
          load_sessions(db)[i] = get_session_by_id(db, 2)

(* C22: delete_session(id) removes exactly the row with that identifier:    *)
(* every other row keeps its identifier and all its fields, the number of   *)
(* rows drops by one when the identifier exists, and the table is unchanged *)
(* when it does not                                                         *)
C22_DeleteExactlyOne ==
    [][ (call'.op = "delete_session" /\ call'.fault = "none") =>
          LET id == call'.session_id
              existed == id \in 1..Len(db) /\ db[id] # NoRow
          IN  /\ get_session_by_id(db', id) = NoSession
              /\ \A other \in (1..(MaxTableCalls + 1)) \ { id } :
                    get_session_by_id(db', other) =
                        get_session_by_id(db, other)
              /\ existed =>
                    Len(load_sessions(db')) = Len(load_sessions(db)) - 1
              /\ ~existed => load_sessions(db') = load_sessions(db)
      ]_vars

(* of two stored sessions the first was deleted: the second is still found  *)
(* under identifier 2, and it is the one session loaded                     *)
C22_Witness ==
    /\ call.op = "delete_session"
    /\ call.fault = "none"
    /\ call.session_id = 1
    /\ Len(db) = 2
    /\ get_session_by_id(db, 1) = NoSession
    /\ get_session_by_id(db, 2) # NoSession
    /\ Len(load_sessions(db)) = 1
    /\ load_sessions(db)[1].session_id = 2

(* C23: a stored row whose timeline text is not JSON, or is JSON that is    *)
(* not a list, loads through load_sessions and get_session_by_id with an    *)
(* empty timeline and its identifier, start, end and focus percentage       *)
(* intact, and the other rows load as they did                              *)
C23_MalformedTimelineLoadsEmpty ==
    [][ call'.op = "corrupt" =>
          LET id == call'.session_id
              before == get_session_by_id(db, id)
              after == get_session_by_id(db', id)
              sessions == load_sessions(db)
              sessions_after == load_sessions(db')
          IN  /\ ~JsonArray(db'[id].focus_data)
              /\ after = [before EXCEPT !.timeline = << >>]
              /\ \A other \in (1..(MaxTableCalls + 1)) \ { id } :
                    get_session_by_id(db', other) =
                        get_session_by_id(db, other)
              /\ Len(sessions_after) = Len(sessions)
              /\ \A i \in 1..Len(sessions) :
                    sessions_after[i] =
                        IF sessions[i].session_id = id THEN after
                        ELSE sessions[i]
      ]_vars

(* one of two stored sessions was overwritten with the text of a JSON       *)
(* object: it loads with an empty timeline and its end time, the other      *)
(* with its own timeline                                                    *)
C23_Witness ==
    /\ call.op = "corrupt"
    /\ Len(db) = 2
    /\ db[call.session_id].focus_data = << "{", "}" >>
    /\ Len(load_sessions(db)) = 2
    /\ get_session_by_id(db, call.session_id).timeline = << >>
    /\ get_session_by_id(db, call.session_id).end_time = 1
    /\ get_session_by_id(db, 3 - call.session_id).timeline =
           << TRUE, TRUE, FALSE, TRUE >>

(* ---------------------------------------------- claims on the weekly sums *)
(* the Monday that opens the calendar week of an instant, as a local date   *)
WeekOf(zone, ts) ==
    LET wall == fromtimestamp(zone, ts)
    IN  Midnight(wall) - weekday(wall) * DaySecs

RECURSIVE SumOn(_, _, _, _)
SumOn(zone, t, rows, d) ==
    IF rows = << >> THEN 0
    ELSE (IF /\ Head(rows).end_time - Head(rows).start_time > 0
             /\ WeekOf(zone, Head(rows).start_time) = WeekOf(zone, t)
             /\ weekday(fromtimestamp(zone, Head(rows).start_time)) = d
          THEN Head(rows).end_time - Head(rows).start_time
          ELSE 0)
         + SumOn(zone, t, Tail(rows), d)

(* C24: get_weekly_stats(t) returns 7 totals, entry d the sum of            *)
(* end - start over the stored sessions of positive duration that start on  *)
(* day d (0 = Monday) of the Monday-aligned week containing t; sessions     *)
(* that start before that Monday 00:00:00 or at or after the next Monday    *)
(* 00:00:00 count nowhere; every t of the same week gives the same totals   *)
C24_WeeklyStats ==
    call.op = "get_weekly_stats" =>
      /\ Len(call.result) = 7
      /\ \A d \in 0..6 :
            call.result[d + 1] = SumOn(call.zone, call.t, Live(db), d)
      /\ \A t \in RefStamps :
            WeekOf(call.zone, t) = WeekOf(call.zone, call.t) =>
                get_weekly_stats(db, call.zone, t) = call.result

(* ------------------------------------- claims on the session accounting   *)
(* the workers that are in their loop *)
Looping == { w \in Workers : pc[w] \in { "check", "body" } }

(* C25: a session that starts after an accepted Calibrate press has fresh   *)
(* accounting: the first Session frame a worker processes sets the start    *)
(* time to the time of that frame, empties the timeline and clears the      *)
(* streak start and the alert flag.  The loop does this on a frame in state *)
(* 2 only while its session_running is false (lines 851-857), so when the   *)
(* press that will be accepted is made, no worker in its loop may hold      *)
(* session_running from a rejected press or an earlier session              *)
C25_FreshAccounting ==
    [][ (state = CALIBRATING /\ state' = SESSION /\ BothCalibrated) =>
            \A w \in Looping : ~session_running[w] ]_vars

(* C26: during a session the timeline only grows by appending at its end;   *)
(* a sample is appended only on a loop cycle where at least                 *)
(* SAMPLE_INTERVAL_SECONDS have passed since the previous sample or the     *)
(* session start, and it is the focus state classified on that cycle; so    *)
(* len(timeline) * SAMPLE_INTERVAL_SECONDS <= elapsed session time at every *)
(* moment and in the record handed to finish_session                        *)
C26_TimelineAppendOnly ==
    [][ \A w \in Workers :
          /\ (session_running[w] /\ pc[w] # "post") =>
                \/ timeline'[w] = timeline[w]
                \/ /\ timeline'[w] = Append(timeline[w], obs'.is_focused)
                   /\ obs'.branch = SESSION
                   /\ now - last_sample_time[w] >= 1
                   /\ last_sample_time[w] >= session_start_time[w]
          /\ (~session_running[w] /\ session_running'[w]) =>
                /\ timeline'[w] = << >>
                /\ session_start_time'[w] = now
          /\ (session_running'[w] /\ pc'[w] \in { "check", "body", "post" }) =>
                Len(timeline'[w]) * 1 <= now' - session_start_time'[w]
          /\ (obs'.kind = "finished" /\ pc[w] = "body") =>
                Len(timeline'[w]) * 1 <= obs'.fin_end - obs'.fin_start
          /\ (pc[w] = "post" /\ finishes'[w] > finishes[w]) =>
                Len(timeline[w]) * 1 <= now - session_start_time[w]
      ]_vars

(* three seconds into its session a worker holds three samples, the first   *)
(* focused and the second not, and hands them to finish_session             *)
C26_Witness ==
    \E w \in Workers :
        /\ obs.kind = "finished"
        /\ pc[w] = "post"
        /\ Len(timeline[w]) = 3
        /\ timeline[w][1] /\ ~timeline[w][2]
        /\ obs.fin_end - obs.fin_start = 3

(* C27: a failed frame read while Calibrating or in Session emits the       *)
(* status 'Frame read error.' and changes nothing else: the state, both     *)
(* boundaries, the timeline, the session start time, the streak start and   *)
(* the alert flag are as before, and the worker is at the loop test again   *)
C27_ReadFailureChangesNothing ==
    [][ (obs'.kind = "read_fail" /\ obs'.branch \in { CALIBRATING, SESSION }) =>
          /\ obs'.status_msg = "Frame read error."
          /\ ~obs'.is_focused /\ ~obs'.is_alerting
          /\ state' = state
          /\ eyeLeft_boundary' = eyeLeft_boundary
          /\ eyeRight_boundary' = eyeRight_boundary
          /\ timeline' = timeline
          /\ session_start_time' = session_start_time
          /\ session_running' = session_running
          /\ consecutive_unfocused_start' = consecutive_unfocused_start
          /\ alert_sounded' = alert_sounded
          /\ finishes' = finishes
          /\ queue' = queue
          /\ \A w \in Workers :
                pc'[w] = IF pc[w] = "body" THEN "check" ELSE pc[w]
      ]_vars

(* a frame read failed in a session that has an unfocused streak open: the  *)
(* worker is back at the loop test with the streak start it had             *)
C27_Witness ==
    /\ obs.kind = "read_fail"
    /\ obs.branch = SESSION
    /\ state = SESSION
    /\ pc[1] = "check"
    /\ session_running[1]
    /\ session_start_time[1] = 0
    /\ consecutive_unfocused_start = 0
    /\ now = 1

(* ------------------------------------------ claims on the state machine   *)
(* a step of set_state on the UI thread *)
UiStep == ui_stack # << >> /\ ui_stack' # ui_stack

(* C28: the UI thread resets a boundary, opens the frame source or releases *)
(* it only when no worker is running                                        *)
C28_UiLeavesWorkerResources ==
    [][ ( /\ UiStep
          /\ \/ Top = CALIBRATING
             \/ Top = IDLE /\ webcam # "None" ) => Alive = {} ]_vars

(* set_state(IDLE) is called from the event loop: a queued state-0 signal   *)
(* is delivered, or the window is closed                                    *)
SignalDelivered == queue # << >> /\ queue' = Tail(queue)
WindowClosed == ~closed /\ closed'

(* C29: set_state(s) called while the state is s already is a no-op: the    *)
(* state, both boundaries, the frame-source handle and the worker are       *)
(* unchanged, no status is emitted and no transition is begun; so the       *)
(* state-0 signal a worker posts on exit has no effect when the machine is  *)
(* Idle already                                                             *)
C29_SameStateIsNoOp ==
    [][ ((SignalDelivered \/ WindowClosed) /\ state = IDLE) =>
          /\ state' = IDLE
          /\ eyeLeft_boundary' = eyeLeft_boundary
          /\ eyeRight_boundary' = eyeRight_boundary
          /\ webcam' = webcam
          /\ tracking_thread' = tracking_thread
          /\ pc' = pc
          /\ ui_stack' = << >>
          /\ ui_status' = ""
          /\ ui_event' = NoEvent ]_vars

(* the one worker there has been ended after a Stop press (its session was  *)
(* finished after the loop, the timer had not run out), and the state-0     *)
(* signal it posted in Idle has been delivered                              *)
C29_Witness ==
    /\ state = IDLE
    /\ UiIdle
    /\ ~closed
    /\ queue = << >>
    /\ webcam = "None"
    /\ tracking_thread = NoThread
    /\ pc[1] = "done"
    /\ \A w \in Workers \ { 1 } : pc[w] = "unborn"
    /\ finishes[1] = 1
    /\ now = 0

(* C30: a rejected Calibrate press changes nothing but the emitted status:  *)
(* both boundaries keep their box and their calibrated flag, the open       *)
(* frame-source handle is kept and no second one is opened, and no further  *)
(* worker thread is started                                                 *)
C30_RejectedPressChangesNothing ==
    [][ (RejectedPress /\ UiStep) =>
          /\ eyeLeft_boundary' = eyeLeft_boundary
          /\ eyeRight_boundary' = eyeRight_boundary
          /\ webcam' = webcam
          /\ tracking_thread' = tracking_thread
          /\ pc' = pc ]_vars

====
